---------------------------- MODULE Spec2Model ----------------------------
(***************************************************************************)
(* A model of pgp.py: an interactive script that drives GnuPG through      *)
(* subprocess calls.  Text is modelled as sequences of one-character       *)
(* strings so that find / slice / strip / split / "in" are computed the    *)
(* way Python computes them.  GnuPG and the user are the environment: each *)
(* subprocess call returns any exit status and any output of a sample set, *)
(* each prompt is answered by any input of a sample set.  The file system  *)
(* is taken to be reliable (open/write/remove do not raise).               *)
(***************************************************************************)
EXTENDS Integers, Sequences, FiniteSets, TLC

(***************************************************************************)
(* Bounds of the model.                                                    *)
(***************************************************************************)
\* number of lines in a key listing printed by gpg
MaxLines == 2
\* number of runs of the script over the same working directory
MaxSessions == 2
\* nested select_recipient frames before Python raises RecursionError
\* (scaled down from the interpreter's limit)
RecursionLimit == 2

(***************************************************************************)
(* Configuration (pgp.py 51-57).                                           *)
(***************************************************************************)
KEY_TYPE == "RSA"
KEY_LENGTH == 4096
KEY_EXPIRE == "2y"
PUB_KEY_FILE == "public_key.asc"
PASS_PHRASE_FILE == "pass_phrase.txt"

(***************************************************************************)
(* Python values.                                                          *)
(***************************************************************************)
\* None, and an absent file: tuples that are not text (text has one
\* character per element)
None == <<"None">>
NoFile == <<"NoFile">>

Truthy(v) == v # None /\ v # <<>>

Whitespace == {" ", "\n", "\t", "\r"}

UpperCase == <<"A","B","C","D","E","F","G","H","I","J","K","L","M",
               "N","O","P","Q","R","S","T","U","V","W","X","Y","Z">>
LowerCase == <<"a","b","c","d","e","f","g","h","i","j","k","l","m",
               "n","o","p","q","r","s","t","u","v","w","x","y","z">>
Digits == <<"0","1","2","3","4","5","6","7","8","9">>

\* the characters of the model in code-point order (str comparison)
CodePoints == <<"\t", "\n", "\r", " ", "+", "-">> \o Digits \o <<":", "<", ">", "@">>
              \o UpperCase \o <<"[", "]", "_">> \o LowerCase

ord(c) == CHOOSE i \in 1..Len(CodePoints) : CodePoints[i] = c

\* str.lower()
lower(s) == [i \in 1..Len(s) |->
               IF \E k \in 1..26 : UpperCase[k] = s[i]
               THEN LowerCase[CHOOSE k \in 1..26 : UpperCase[k] = s[i]]
               ELSE s[i]]

\* s[a:b] for 0 <= a, 0 <= b
Slice(s, a, b) == SubSeq(s, a + 1, IF b > Len(s) THEN Len(s) ELSE b)

\* str.find(c) for a one-character c: 0-based index of the first
\* occurrence, -1 when there is none
find(s, c) == IF \E i \in 1..Len(s) : s[i] = c
              THEN (CHOOSE i \in 1..Len(s) :
                       s[i] = c /\ \A j \in 1..(i-1) : s[j] # c) - 1
              ELSE -1

\* sub in s
contains(s, sub) == \E i \in 1..(Len(s) - Len(sub) + 1) :
                       SubSeq(s, i, i + Len(sub) - 1) = sub

\* str.startswith
startswith(s, prefix) == Len(s) >= Len(prefix) /\ SubSeq(s, 1, Len(prefix)) = prefix

\* str.strip()
strip(s) == LET keep == {i \in 1..Len(s) : s[i] \notin Whitespace}
            IN  IF keep = {} THEN <<>>
                ELSE SubSeq(s, CHOOSE i \in keep : \A j \in keep : i <= j,
                               CHOOSE i \in keep : \A j \in keep : j <= i)

\* str.split(sep) for a one-character separator
RECURSIVE split(_, _)
split(s, sep) == LET i == find(s, sep)
                 IN  IF i = -1 THEN <<s>>
                     ELSE <<Slice(s, 0, i)>> \o split(Slice(s, i + 1, Len(s)), sep)

\* str.splitlines() (the texts of the model break lines with "\n" only)
RECURSIVE splitlines(_)
splitlines(s) == IF s = <<>> THEN <<>>
                 ELSE LET i == find(s, "\n")
                      IN  IF i = -1 THEN <<s>>
                          ELSE <<Slice(s, 0, i)>> \o splitlines(Slice(s, i + 1, Len(s)))

\* a < b for str
StrLess(a, b) ==
    \E k \in 0..(IF Len(a) < Len(b) THEN Len(a) ELSE Len(b)) :
        /\ SubSeq(a, 1, k) = SubSeq(b, 1, k)
        /\ \/ k = Len(a) /\ k < Len(b)
           \/ k < Len(a) /\ k < Len(b) /\ ord(a[k+1]) < ord(b[k+1])

\* sorted(S) for a set of str
RECURSIVE sorted(_)
sorted(S) == IF S = {} THEN <<>>
             ELSE LET m == CHOOSE x \in S : \A y \in S \ {x} : StrLess(x, y)
                  IN  <<m>> \o sorted(S \ {m})

\* set(seq)
set(seq) == {seq[i] : i \in 1..Len(seq)}

\* int(s) for an already stripped s: an optional sign and decimal digits;
\* anything else raises ValueError
IsDigit(c) == \E k \in 1..10 : Digits[k] = c
DigitValue(c) == (CHOOSE k \in 1..10 : Digits[k] = c) - 1
RECURSIVE DecimalValue(_)
DecimalValue(ds) == IF ds = <<>> THEN 0
                    ELSE 10 * DecimalValue(SubSeq(ds, 1, Len(ds) - 1))
                         + DigitValue(ds[Len(ds)])
IntBody(s) == IF s # <<>> /\ s[1] \in {"+", "-"} THEN Tail(s) ELSE s
IsInt(s) == IntBody(s) # <<>> /\ \A i \in 1..Len(IntBody(s)) : IsDigit(IntBody(s)[i])
int(s) == IF s[1] = "-" THEN 0 - DecimalValue(IntBody(s)) ELSE DecimalValue(IntBody(s))


(***************************************************************************)
(* The environment's sample sets: what gpg prints, what the user types.    *)
(***************************************************************************)
ReturnCodes == {0, 1}

\* lines of the key listings
UidAl      == <<"u","i","d"," ","A","l"," ","<","a","@","x",">">>        \* uid Al <a@x>
UidBob     == <<"u","i","d"," ","B","o","b"," ","<","b","@","x",">">>    \* uid Bob <b@x>
SecLine    == <<"s","e","c"," ","r","s","a","4","0","9","6">>            \* sec rsa4096
UidNoSpace == <<"u","i","d","<","c","@","x",">">>                        \* uid<c@x>
UidReverse == <<"u","i","d"," ",">","d","<">>                            \* uid >d<
UidNoClose == <<"u","i","d"," ","E"," ","<","e">>                        \* uid E <e
UidNoName  == <<"u","i","d"," ","<","f","@","x",">">>                    \* uid <f@x>
\* --list-secret-keys
KeyLines == {UidBob, SecLine, UidNoSpace, UidReverse, UidNoName}
\* --list-keys
PublicKeyLines == {UidAl, UidBob, SecLine, UidNoClose}

\* lines of `gpg --list-secret-keys --with-colons`
FprAA    == <<"f","p","r",":",":",":",":",":",":",":",":",":","A","A",":">>  \* fpr:::::::::AA:
FprBB    == <<"f","p","r",":",":",":",":",":",":",":",":",":","B","B",":">>  \* fpr:::::::::BB:
SecColon == <<"s","e","c",":","u",":","4","0","9","6">>                      \* sec:u:4096
FprShort == <<"f","p","r",":",":",":","C","C">>                              \* fpr:::CC
ColonLines == {FprAA, FprBB, SecColon, FprShort}

\* the text gpg prints for a sequence of lines
RECURSIVE JoinLines(_)
JoinLines(ls) == IF ls = <<>> THEN <<>> ELSE Head(ls) \o <<"\n">> \o JoinLines(Tail(ls))

Listings(lines) == {JoinLines(ls) : ls \in UNION {[1..n -> lines] : n \in 0..MaxLines}}

\* armored public keys printed by `gpg --armor --export`
ArmoredKeys == {<<"K","1">>, <<"K","2">>}

BEGIN_MARKER == <<"-","-","-","-","-","B","E","G","I","N"," ","P","G","P"," ",
                  "M","E","S","S","A","G","E","-","-","-","-","-">>
END_MARKER == <<"-","-","-","-","-","E","N","D"," ","P","G","P"," ",
                "M","E","S","S","A","G","E","-","-","-","-","-">>

\* what the user pastes at the decrypt prompt
PastedMessages == { BEGIN_MARKER \o <<"\n","X","\n">> \o END_MARKER \o <<"\n">>,
                    BEGIN_MARKER \o <<"\n","X","\n">>,
                    <<"X","\n">> \o END_MARKER \o <<"\n">>,
                    <<"h","i">>,
                    <<>> }

\* answers to the mode prompt
ModeInputs == { <<"s">>, <<" ","S","e","t","u","p">>, <<"e">>, <<"d">>, <<"D">>, <<"r">>,
                <<"q">>, <<"x">>, <<" "," ">>, <<>> }

Names == { <<"A","l">> }
Emails == { <<"a","@","x">> }
SaveAnswers == { <<"y">>, <<"Y">>, <<" ","y">> }
PassPhrases == { <<>>, <<"p","w">>, <<" ","p","w"," ">>, <<" ">> }
Selections == { <<" ","R"," ">>, <<"1">>, <<" ","2"," ">>, <<"0">>, <<"x">> }
PastedKeys == { <<"K","1">> }
PlainMessages == { <<"h","i">> }

(***************************************************************************)
(* The parsing and formatting the script does itself.                      *)
(***************************************************************************)
\* a slip in the email slice: line[start_email:end_email]
line_identity_off_by_one(line) ==
    IF contains(line, <<"u","i","d">>)
    THEN LET start_name == find(line, " ")
             start_email == find(line, "<")
             end_email == find(line, ">")
         IN  IF start_name # -1 /\ start_email # -1 /\ end_email # -1
             THEN << << strip(Slice(line, start_name, start_email)),
                        Slice(line, start_email, end_email) >> >>
             ELSE <<>>
    ELSE <<>>

\* lines 78-85: the identity a listing line yields, as a sequence of zero
\* or one (name, email) pair
line_identity(line) ==
    IF contains(line, <<"u","i","d">>)
    THEN LET start_name == find(line, " ")
             start_email == find(line, "<")
             end_email == find(line, ">")
         IN  IF start_name # -1 /\ start_email # -1 /\ end_email # -1
             THEN << << strip(Slice(line, start_name, start_email)),
                        Slice(line, start_email + 1, end_email) >> >>
             ELSE <<>>
    ELSE <<>>

RECURSIVE parse_identities(_)
parse_identities(lines) ==
    IF lines = <<>> THEN <<>>
    ELSE line_identity(Head(lines)) \o parse_identities(Tail(lines))

\* lines 65-95
get_user_name_and_email(returncode, stdout) ==
    IF returncode = 0
    THEN LET identities == parse_identities(splitlines(stdout))
         IN  IF identities # <<>> THEN identities[1] ELSE <<None, None>>
    ELSE <<None, None>>

\* lines 397-404
line_email(line) ==
    IF contains(line, <<"u","i","d">>)
    THEN LET start == find(line, "<")
             end == find(line, ">")
         IN  IF start # -1 /\ end # -1
             THEN << Slice(line, start + 1, end) >>
             ELSE <<>>
    ELSE <<>>

RECURSIVE parse_emails(_)
parse_emails(lines) ==
    IF lines = <<>> THEN <<>>
    ELSE line_email(Head(lines)) \o parse_emails(Tail(lines))
\* a slip in list_recipients: `return keys`
list_recipients_raw(returncode, stdout) ==
    IF returncode # 0 THEN <<>>
    ELSE parse_emails(splitlines(stdout))

\* lines 384-406
list_recipients(returncode, stdout) ==
    IF returncode # 0 THEN <<>>
    ELSE sorted(set(parse_emails(splitlines(stdout))))

\* lines 315-317; IndexError when a line starting with fpr has fewer
\* than ten fields
FprLines(stdout) == SelectSeq(splitlines(stdout), LAMBDA l : startswith(l, <<"f","p","r">>))
fingerprints_raise(stdout) ==
    \E i \in 1..Len(FprLines(stdout)) : Len(split(FprLines(stdout)[i], ":")) < 10
fingerprints_of(stdout) ==
    [i \in 1..Len(FprLines(stdout)) |-> split(FprLines(stdout)[i], ":")[10]]
\* a slip in the armor check: `and` for `or`
has_armor_markers_either(encrypted_message) ==
    ~ (/\ ~ contains(encrypted_message, BEGIN_MARKER)
       /\ ~ contains(encrypted_message, END_MARKER))

\* lines 494-497: the armor check of decrypt_message
has_armor_markers(encrypted_message) ==
    ~ (\/ ~ contains(encrypted_message, BEGIN_MARKER)
       \/ ~ contains(encrypted_message, END_MARKER))
\* a slip in get_user_pass_phrase: the file is never found
get_user_pass_phrase_not_found(file) == None

\* lines 177-191, on the content of PASS_PHRASE_FILE
get_user_pass_phrase(file) ==
    IF file = NoFile THEN None
    ELSE IF strip(file) # <<>> THEN strip(file) ELSE None
\* a slip in the parameter block: the subkey length for the key length
\* with another configured value
key_params_short(n, e, pp) ==
    [ KeyType |-> KEY_TYPE, KeyLength |-> 2048,
      SubkeyType |-> KEY_TYPE, SubkeyLength |-> KEY_LENGTH,
      NameReal |-> n, NameEmail |-> e, ExpireDate |-> KEY_EXPIRE,
      HasPassphrase |-> Truthy(pp),
      Passphrase |-> IF Truthy(pp) THEN pp ELSE <<>> ]

\* lines 129-151: the parameter block fed to gpg --batch --gen-key
key_params(n, e, pp) ==
    [ KeyType |-> KEY_TYPE, KeyLength |-> KEY_LENGTH,
      SubkeyType |-> KEY_TYPE, SubkeyLength |-> KEY_LENGTH,
      NameReal |-> n, NameEmail |-> e, ExpireDate |-> KEY_EXPIRE,
      HasPassphrase |-> Truthy(pp),
      Passphrase |-> IF Truthy(pp) THEN pp ELSE <<>> ]
\* a slip in the range check: `0 <= selection`, so that 0 selects
\* recipients[-1], the last element
selected_recipient_from_zero(raw_selection, rs) ==
    IF IsInt(raw_selection)
    THEN IF 0 <= int(raw_selection) /\ int(raw_selection) <= Len(rs)
         THEN IF int(raw_selection) = 0 THEN rs[Len(rs)] ELSE rs[int(raw_selection)]
         ELSE None
    ELSE None

\* lines 433-442: the recipient for a stripped, lower-cased selection other
\* than "r"; None for a non-number or a number out of range
selected_recipient(raw_selection, rs) ==
    IF IsInt(raw_selection)
    THEN IF 1 <= int(raw_selection) /\ int(raw_selection) <= Len(rs)
         THEN rs[int(raw_selection)]
         ELSE None
    ELSE None

selection_message(raw_selection) ==
    IF IsInt(raw_selection) THEN "Invalid selection."
    ELSE "Invalid input. Please enter a number."


(***************************************************************************)
(* State.                                                                  *)
(***************************************************************************)
VARIABLES
    pc,           \* where the script stands
    stack,        \* where the functions being run return to
    mode,         \* the mode read by the main block
    name, email,  \* the identity found or entered
    pass_phrase,  \* the value of ensure_user_pass_phrase()
    message,      \* the text pasted at the decrypt prompt
    recipients,   \* the value of list_recipients() in select_recipient
    recipient,    \* the value of select_recipient()
    fingerprints, \* the list reset_pgp_keys loops over
    idx,          \* position of that loop (1-based)
    depth,        \* nested select_recipient frames
    result,       \* the most recent subprocess.run result
    log,          \* subprocess calls, prints, file and stdin operations of this run
    pubFile,      \* content of PUB_KEY_FILE, or NoFile
    passFile,     \* content of PASS_PHRASE_FILE, or NoFile
    sessions      \* runs of the script started so far

vars == << pc, stack, mode, name, email, pass_phrase, message, recipients, recipient,
           fingerprints, idx, depth, result, log, pubFile, passFile, sessions >>

locals == << mode, name, email, pass_phrase, message, recipients, recipient,
             fingerprints, idx, depth >>

Call(what, arg, rc) == [ev |-> "call", what |-> what, arg |-> arg, rc |-> rc]
Say(what) == [ev |-> "print", what |-> what, arg |-> <<>>, rc |-> 0]
Write(file, text) == [ev |-> "write", what |-> file, arg |-> text, rc |-> 0]
Remove(file) == [ev |-> "remove", what |-> file, arg |-> <<>>, rc |-> 0]
Read(what, text) == [ev |-> "read", what |-> what, arg |-> text, rc |-> 0]
SayOf(what, arg) == [ev |-> "print", what |-> what, arg |-> arg, rc |-> 0]
Raise(what) == [ev |-> "raise", what |-> what, arg |-> <<>>, rc |-> 1]

Terminal == {"done", "invalid_mode", "crashed"}

Init ==
    /\ pc = "main"
    /\ stack = <<>>
    /\ mode = <<>>
    /\ name = None
    /\ email = None
    /\ pass_phrase = None
    /\ message = <<>>
    /\ recipients = <<>>
    /\ recipient = None
    /\ fingerprints = <<>>
    /\ idx = 1
    /\ depth = 0
    /\ result = [returncode |-> 0, stdout |-> <<>>]
    /\ log = <<>>
    /\ pubFile = NoFile
    /\ passFile = NoFile
    /\ sessions = 1

(***************************************************************************)
(* Returning to a caller.  stk has the return label on top; the code that  *)
(* follows the call up to the next prompt or subprocess is run here.       *)
(***************************************************************************)
\* lines 245 and 253-254 (after first_time_setup), 253-254 (after
\* ensure_user_pass_phrase), 173 / 109 / 502 (back in decrypt_message),
\* and the end of the main block
Resume(stk, lg) ==
    CASE Head(stk) = "setup_registered" ->
            [pc |-> "print_pgp_public_keys", stack |-> <<"exit">> \o Tail(stk),
             log |-> lg \o <<Say("Successfully registered"), Say("Done with setup.")>>]
      [] Head(stk) = "setup_done" ->
            [pc |-> "print_pgp_public_keys", stack |-> <<"exit">> \o Tail(stk),
             log |-> lg \o <<Say("Done with setup.")>>]
      [] Head(stk) = "exit" ->
            [pc |-> "done", stack |-> Tail(stk), log |-> lg]
      [] OTHER ->
            [pc |-> Head(stk), stack |-> Tail(stk), log |-> lg]

\* lines 198-206: ensure_user_pass_phrase up to its first prompt, entered
\* with return label ret
EnsureStart(ret, stk, lg) ==
    LET stored == get_user_pass_phrase(passFile)
    IN  IF Truthy(stored)
        THEN [next |-> Resume(<<ret>> \o stk, lg), pass_phrase |-> stored]
        ELSE [next |-> [pc |-> "ensure_user_pass_phrase", stack |-> <<ret>> \o stk,
                        log |-> lg \o <<Say("Do you want to save a pass phrase as plain text?")>>],
              pass_phrase |-> None]

(***************************************************************************)
(* Main block, lines 544-571.                                              *)
(***************************************************************************)
main ==
    /\ pc = "main"
    /\ \E raw \in ModeInputs :
         LET mode_raw == lower(strip(raw))
             m == IF mode_raw # <<>> THEN <<mode_raw[1]>> ELSE <<>>
         IN  /\ mode' = m
             /\ log' = log \o <<Say("Welcome!")>>
                           \o (IF m = <<"q">> THEN <<Say("Quitting")>>
                               ELSE IF m \in {<<"s">>, <<"e">>, <<"d">>, <<"r">>} THEN <<>>
                               ELSE <<Say("Invalid mode.")>>)
             /\ pc' = CASE m = <<"s">> -> "setup_pgp_keys"
                        [] m = <<"e">> -> "select_recipient"
                        [] m = <<"d">> -> "decrypt_message"
                        [] m = <<"r">> -> "reset_pgp_keys"
                        [] m = <<"q">> -> "done"
                        [] OTHER -> "invalid_mode"
             /\ depth' = IF m = <<"e">> THEN 1 ELSE depth
    /\ UNCHANGED << stack, name, email, pass_phrase, message, recipients, recipient,
                    fingerprints, idx, result, pubFile, passFile, sessions >>

(***************************************************************************)
(* Setup.                                                                  *)
(***************************************************************************)
\* lines 237-251: setup_pgp_keys up to first_time_setup's first prompt or
\* ensure_user_pass_phrase's first prompt
setup_pgp_keys ==
    /\ pc = "setup_pgp_keys"
    /\ \E rc \in ReturnCodes, out \in Listings(KeyLines) :
         LET id == get_user_name_and_email(rc, out)
             lg == log \o <<Say("Setting up PGP keys..."), Call("list-secret-keys", <<>>, rc)>>
                       \o (IF rc # 0 THEN <<Say("Warning: error listing GPG secret keys")>>
                           ELSE <<>>)
             found == EnsureStart("setup_done", stack, lg \o <<Say("Found existing user")>>)
         IN  /\ result' = [returncode |-> rc, stdout |-> out]
             /\ name' = id[1]
             /\ email' = id[2]
             /\ IF ~ Truthy(id[1]) \/ ~ Truthy(id[2])
                THEN /\ pc' = "first_time_setup"
                     /\ stack' = <<"setup_registered">> \o stack
                     /\ log' = lg \o <<Say("Looks like this is your first time running the tool.")>>
                     /\ UNCHANGED pass_phrase
                ELSE /\ pc' = found.next.pc
                     /\ stack' = found.next.stack
                     /\ log' = found.next.log
                     /\ pass_phrase' = found.pass_phrase
    /\ UNCHANGED << mode, message, recipients, recipient, fingerprints, idx, depth,
                    pubFile, passFile, sessions >>

\* lines 114-123: the two prompts of first_time_setup, then
\* ensure_user_pass_phrase up to its first prompt
first_time_setup ==
    /\ pc = "first_time_setup"
    /\ \E n \in Names, e \in Emails :
         LET ens == EnsureStart("generate_key", stack,
                                log \o <<Read("name", n), Read("email", e)>>)
         IN  /\ name' = n
             /\ email' = e
             /\ pc' = ens.next.pc
             /\ stack' = ens.next.stack
             /\ log' = ens.next.log
             /\ pass_phrase' = ens.pass_phrase
    /\ UNCHANGED << mode, message, recipients, recipient, fingerprints, idx, depth,
                    result, pubFile, passFile, sessions >>

\* lines 204-215: the save prompt
ensure_user_pass_phrase ==
    /\ pc = "ensure_user_pass_phrase"
    /\ \E save_pass \in SaveAnswers :
         IF lower(save_pass) # <<"y">>
         THEN LET r == Resume(stack, log \o <<Read("save_pass", save_pass), Say("Got it.")>>)
              IN  /\ pc' = r.pc
                  /\ stack' = r.stack
                  /\ log' = r.log
                  /\ pass_phrase' = None
         ELSE /\ pc' = "enter_pass_phrase"
              /\ log' = log \o <<Read("save_pass", save_pass), Say("Saving pass phrase")>>
              /\ UNCHANGED << stack, pass_phrase >>
    /\ UNCHANGED << mode, name, email, message, recipients, recipient, fingerprints, idx,
                    depth, result, pubFile, passFile, sessions >>

\* lines 215-228: the pass phrase prompt and the write
enter_pass_phrase ==
    /\ pc = "enter_pass_phrase"
    /\ \E p \in PassPhrases :
         IF p = <<>>
         THEN LET r == Resume(stack, log \o <<Read("pass_phrase", p),
                                              Say("Pass phrase cannot be empty.")>>)
              IN  /\ pc' = r.pc
                  /\ stack' = r.stack
                  /\ log' = r.log
                  /\ pass_phrase' = None
                  /\ UNCHANGED passFile
         ELSE LET r == Resume(stack, log \o <<Read("pass_phrase", p),
                                              Write(PASS_PHRASE_FILE, p),
                                              Say("Pass phrase saved successfully.")>>)
              IN  /\ passFile' = p \o <<"\n">>
                  /\ pc' = r.pc
                  /\ stack' = r.stack
                  /\ log' = r.log
                  /\ pass_phrase' = p
    /\ UNCHANGED << mode, name, email, message, recipients, recipient, fingerprints, idx,
                    depth, result, pubFile, sessions >>

\* lines 125-173: the key generation of first_time_setup and its return
generate_key ==
    /\ pc = "generate_key"
    /\ \E rc \in ReturnCodes :
         LET lg == log \o <<Call("gen-key", key_params(name, email, pass_phrase), rc)>>
             r == Resume(stack, lg \o <<Say("Error generating PGP key pair")>>)
         IN  /\ result' = [returncode |-> rc, stdout |-> <<>>]
             /\ IF rc = 0
                THEN /\ pc' = "print_pgp_public_keys"
                     /\ log' = lg \o <<Say("Key generation successful!")>>
                     /\ UNCHANGED stack
                ELSE /\ pc' = r.pc
                     /\ stack' = r.stack
                     /\ log' = r.log
    /\ UNCHANGED << locals, pubFile, passFile, sessions >>

\* lines 258-278, and the return to the caller
print_pgp_public_keys ==
    /\ pc = "print_pgp_public_keys"
    /\ \E rc \in ReturnCodes, out \in ArmoredKeys :
         LET lg == log \o <<Call("export", email, rc)>>
             r == IF rc = 0
                  THEN Resume(stack, lg \o <<Say("Public PGP Key"), Write(PUB_KEY_FILE, out),
                                             Say("Public key saved for sharing")>>)
                  ELSE Resume(stack, lg \o <<Say("Error exporting PGP public key")>>)
         IN  /\ result' = [returncode |-> rc, stdout |-> out]
             /\ pubFile' = IF rc = 0 THEN out ELSE pubFile
             /\ pc' = r.pc
             /\ stack' = r.stack
             /\ log' = r.log
    /\ UNCHANGED << locals, passFile, sessions >>


(***************************************************************************)
(* Reset.                                                                  *)
(***************************************************************************)
\* lines 286-321: the file removals, the listing and the fingerprint list
reset_pgp_keys ==
    /\ pc = "reset_pgp_keys"
    /\ \E rc \in ReturnCodes, out \in Listings(ColonLines) :
         LET lg == log \o <<Say("Resetting PGP keys...")>>
                       \o (IF pubFile # NoFile THEN <<Remove(PUB_KEY_FILE)>> ELSE <<>>)
                       \o (IF passFile # NoFile THEN <<Remove(PASS_PHRASE_FILE)>> ELSE <<>>)
                       \o <<Call("list-secret-keys --with-colons", <<>>, rc)>>
         IN  /\ pubFile' = NoFile
             /\ passFile' = NoFile
             /\ result' = [returncode |-> rc, stdout |-> out]
             /\ IF rc # 0
                THEN /\ pc' = "done"
                     /\ log' = lg \o <<Say("Error listing secret keys")>>
                     /\ UNCHANGED << fingerprints, idx >>
                ELSE IF fingerprints_raise(out)
                THEN /\ pc' = "crashed"
                     /\ log' = lg \o <<Raise("IndexError")>>
                     /\ UNCHANGED << fingerprints, idx >>
                ELSE /\ fingerprints' = fingerprints_of(out)
                     /\ idx' = 1
                     /\ IF fingerprints_of(out) = <<>>
                        THEN /\ pc' = "done"
                             /\ log' = lg
                        ELSE /\ pc' = "delete_secret_key"
                             /\ log' = lg \o <<SayOf("Attempting to delete key",
                                                     fingerprints_of(out)[1])>>
    /\ UNCHANGED << stack, mode, name, email, pass_phrase, message, recipients, recipient,
                    depth, sessions >>
\* a slip in the loop: `continue` after a failed secret-key deletion
delete_secret_key_continue ==
    /\ pc = "delete_secret_key"
    /\ \E rc \in ReturnCodes :
         LET lg == log \o <<Call("delete-secret-key", fingerprints[idx], rc),
                            SayOf(IF rc = 0 THEN "Deleted secret key"
                                  ELSE "Error deleting secret key", fingerprints[idx])>>
         IN  /\ result' = [returncode |-> rc, stdout |-> <<>>]
             /\ IF rc = 0
                THEN /\ pc' = "delete_key"
                     /\ log' = lg
                     /\ UNCHANGED idx
                ELSE /\ idx' = idx + 1
                     /\ IF idx = Len(fingerprints)
                        THEN /\ pc' = "done"
                             /\ log' = lg
                        ELSE /\ pc' = "delete_secret_key"
                             /\ log' = lg \o <<SayOf("Attempting to delete key",
                                                     fingerprints[idx + 1])>>
    /\ UNCHANGED << stack, mode, name, email, pass_phrase, message, recipients, recipient,
                    fingerprints, depth, pubFile, passFile, sessions >>

\* lines 323-335
delete_secret_key ==
    /\ pc = "delete_secret_key"
    /\ \E rc \in ReturnCodes :
         /\ result' = [returncode |-> rc, stdout |-> <<>>]
         /\ log' = log \o <<Call("delete-secret-key", fingerprints[idx], rc),
                            SayOf(IF rc = 0 THEN "Deleted secret key"
                                  ELSE "Error deleting secret key", fingerprints[idx])>>
         /\ pc' = "delete_key"
    /\ UNCHANGED << stack, locals, pubFile, passFile, sessions >>

\* lines 337-349, and the step of the loop of line 320
delete_key ==
    /\ pc = "delete_key"
    /\ \E rc \in ReturnCodes :
         LET lg == log \o <<Call("delete-key", fingerprints[idx], rc),
                            SayOf(IF rc = 0 THEN "Deleted public key"
                                  ELSE "Error deleting public key", fingerprints[idx])>>
         IN  /\ result' = [returncode |-> rc, stdout |-> <<>>]
             /\ idx' = idx + 1
             /\ IF idx = Len(fingerprints)
                THEN /\ pc' = "done"
                     /\ log' = lg
                ELSE /\ pc' = "delete_secret_key"
                     /\ log' = lg \o <<SayOf("Attempting to delete key", fingerprints[idx + 1])>>
    /\ UNCHANGED << stack, mode, name, email, pass_phrase, message, recipients, recipient,
                    fingerprints, depth, pubFile, passFile, sessions >>

(***************************************************************************)
(* Encryption.                                                             *)
(***************************************************************************)
\* lines 409-420 with list_recipients
select_recipient ==
    /\ pc = "select_recipient"
    /\ \E rc \in ReturnCodes, out \in Listings(PublicKeyLines) :
         LET rs == list_recipients(rc, out)
             lg == log \o <<Call("list-keys", <<>>, rc)>>
                       \o (IF rc # 0 THEN <<Say("Error listing public keys:")>> ELSE <<>>)
         IN  /\ result' = [returncode |-> rc, stdout |-> out]
             /\ recipients' = rs
             /\ IF rs = <<>>
                THEN /\ pc' = "register_recipient"
                     /\ log' = lg \o <<Say("No recipients found in the keyring; let's add one.")>>
                ELSE /\ pc' = "select_recipient_input"
                     /\ log' = lg
    /\ UNCHANGED << stack, mode, name, email, pass_phrase, message, recipient,
                    fingerprints, idx, depth, pubFile, passFile, sessions >>

\* lines 357-381, and the recursive call of line 416 or 431 that follows
register_recipient ==
    /\ pc = "register_recipient"
    /\ \E public_key \in PastedKeys, rc \in ReturnCodes :
         LET lg == log \o <<Read("public_key", public_key), Call("import", public_key, rc),
                            Say(IF rc = 0
                                THEN "Recipient's public key has been successfully imported."
                                ELSE "Error importing public key")>>
         IN  /\ result' = [returncode |-> rc, stdout |-> <<>>]
             /\ IF depth >= RecursionLimit
                THEN /\ pc' = "crashed"
                     /\ log' = lg \o <<Raise("RecursionError")>>
                     /\ UNCHANGED depth
                ELSE /\ pc' = "select_recipient"
                     /\ log' = lg
                     /\ depth' = depth + 1
    /\ UNCHANGED << stack, mode, name, email, pass_phrase, message, recipients, recipient,
                    fingerprints, idx, pubFile, passFile, sessions >>

\* lines 422-442, and lines 446-454 of encrypt_message
select_recipient_input ==
    /\ pc = "select_recipient_input"
    /\ \E raw \in Selections :
         LET raw_selection == lower(strip(raw))
             sel == selected_recipient(raw_selection, recipients)
             lg == log \o <<Read("selection", raw)>>
         IN  IF raw_selection = <<"r">>
             THEN /\ pc' = "register_recipient"
                  /\ log' = lg
                  /\ UNCHANGED recipient
             ELSE /\ recipient' = sel
                  /\ IF sel = None
                     THEN /\ pc' = "done"
                          /\ log' = lg \o <<Say(selection_message(raw_selection))>>
                     ELSE /\ pc' = "encrypt_message"
                          /\ log' = lg \o <<SayOf("Selected recipient", sel)>>
    /\ UNCHANGED << stack, mode, name, email, pass_phrase, message, recipients,
                    fingerprints, idx, depth, result, pubFile, passFile, sessions >>

\* lines 456-476
encrypt_message ==
    /\ pc = "encrypt_message"
    /\ \E msg \in PlainMessages, rc \in ReturnCodes :
         /\ result' = [returncode |-> rc, stdout |-> <<>>]
         /\ log' = log \o <<Read("message", msg), Call("encrypt", recipient, rc),
                            Say(IF rc = 0 THEN "Encrypted message:"
                                ELSE "Error encrypting message")>>
         /\ pc' = "done"
    /\ UNCHANGED << stack, locals, pubFile, passFile, sessions >>

(***************************************************************************)
(* Decryption.                                                             *)
(***************************************************************************)
\* lines 485-499
decrypt_message ==
    /\ pc = "decrypt_message"
    /\ \E encrypted_message \in PastedMessages :
         /\ message' = encrypted_message
         /\ IF ~ has_armor_markers(encrypted_message)
            THEN /\ pc' = "done"
                 /\ log' = log \o <<Read("encrypted_message", encrypted_message),
                                    Say("Error: The encrypted message format is incorrect.")>>
            ELSE /\ pc' = "ensure_user_name_and_email"
                 /\ log' = log \o <<Read("encrypted_message", encrypted_message)>>
    /\ UNCHANGED << stack, mode, name, email, pass_phrase, recipients, recipient,
                    fingerprints, idx, depth, result, pubFile, passFile, sessions >>

\* lines 101-109 (called at line 502) up to first_time_setup's first prompt
ensure_user_name_and_email ==
    /\ pc = "ensure_user_name_and_email"
    /\ \E rc \in ReturnCodes, out \in Listings(KeyLines) :
         LET id == get_user_name_and_email(rc, out)
             lg == log \o <<Call("list-secret-keys", <<>>, rc)>>
                       \o (IF rc # 0 THEN <<Say("Warning: error listing GPG secret keys")>>
                           ELSE <<>>)
         IN  /\ result' = [returncode |-> rc, stdout |-> out]
             /\ name' = id[1]
             /\ email' = id[2]
             /\ IF Truthy(id[1]) /\ Truthy(id[2])
                THEN /\ pc' = "decrypt_run"
                     /\ log' = lg
                     /\ UNCHANGED stack
                ELSE /\ pc' = "first_time_setup"
                     /\ stack' = <<"decrypt_run">> \o stack
                     /\ log' = lg \o <<Say("Looks like this is your first time running the tool.")>>
    /\ UNCHANGED << mode, pass_phrase, message, recipients, recipient, fingerprints, idx,
                    depth, pubFile, passFile, sessions >>

\* lines 504-536
decrypt_run ==
    /\ pc = "decrypt_run"
    /\ \E rc \in ReturnCodes :
         /\ result' = [returncode |-> rc, stdout |-> <<>>]
         /\ pass_phrase' = get_user_pass_phrase(passFile)
         /\ log' = log \o <<Call("decrypt", get_user_pass_phrase(passFile), rc),
                            Say(IF rc = 0 THEN "Decrypted message:"
                                ELSE "Error decrypting message")>>
         /\ pc' = "done"
    /\ UNCHANGED << stack, mode, name, email, message, recipients, recipient,
                    fingerprints, idx, depth, pubFile, passFile, sessions >>

(***************************************************************************)
(* The user runs the script again in the same directory.                   *)
(***************************************************************************)
new_session ==
    /\ pc \in Terminal
    /\ sessions < MaxSessions
    /\ sessions' = sessions + 1
    /\ pc' = "main"
    /\ stack' = <<>>
    /\ mode' = <<>>
    /\ name' = None
    /\ email' = None
    /\ pass_phrase' = None
    /\ message' = <<>>
    /\ recipients' = <<>>
    /\ recipient' = None
    /\ fingerprints' = <<>>
    /\ idx' = 1
    /\ depth' = 0
    /\ result' = [returncode |-> 0, stdout |-> <<>>]
    /\ log' = <<>>
    /\ UNCHANGED << pubFile, passFile >>

Next ==
    \/ main
    \/ setup_pgp_keys
    \/ first_time_setup
    \/ ensure_user_pass_phrase
    \/ enter_pass_phrase
    \/ generate_key
    \/ print_pgp_public_keys
    \/ reset_pgp_keys
    \/ delete_secret_key
    \/ delete_key
    \/ select_recipient
    \/ register_recipient
    \/ select_recipient_input
    \/ encrypt_message
    \/ decrypt_message
    \/ ensure_user_name_and_email
    \/ decrypt_run
    \/ new_session

Spec == Init /\ [][Next]_vars

(***************************************************************************)
(* Vocabulary of the properties.                                           *)
(***************************************************************************)
IsCall(e, what) == e.ev = "call" /\ e.what = what
CallIndices == {i \in 1..Len(log) : log[i].ev = "call"}
HasCall == CallIndices # {}
LastCall == log[CHOOSE i \in CallIndices : \A j \in CallIndices : j <= i]
NoToolCall == CallIndices = {}
NoFileOperation == \A i \in 1..Len(log) : log[i].ev \notin {"write", "remove"}

\* 1-based position of the first c in l
FirstIndex(l, c) == CHOOSE i \in 1..Len(l) : l[i] = c /\ \A j \in 1..(i-1) : l[j] # c
Has(l, c) == \E i \in 1..Len(l) : l[i] = c
HasUidMarker(l) == \E i \in 1..(Len(l) - 2) : l[i] = "u" /\ l[i+1] = "i" /\ l[i+2] = "d"

\* the text after the first "<" up to the first ">" (empty when the ">"
\* comes first)
EmailOn(l) == [k \in 1..(FirstIndex(l, ">") - FirstIndex(l, "<") - 1) |->
                  l[FirstIndex(l, "<") + k]]
\* the text from the first space up to the first "<", without the
\* surrounding whitespace
NameOn(l) == strip([k \in 1..(FirstIndex(l, "<") - FirstIndex(l, " ")) |->
                       l[FirstIndex(l, " ") + k - 1]])

(***************************************************************************)
(* C1                                                                      *)
(***************************************************************************)
LacksMarker(m) == ~ contains(m, BEGIN_MARKER) \/ ~ contains(m, END_MARKER)
DecryptInputRead == mode = <<"d">> /\ pc \notin {"main", "decrypt_message"}

\* C1: once decrypt_message has read a pasted text that lacks the begin
\* marker or the end marker, the run is over with the format error
\* printed, and it made no subprocess call and no file write or removal.
C1_RefusedWithoutMarkers ==
    (DecryptInputRead /\ LacksMarker(message)) =>
        /\ pc = "done"
        /\ log[Len(log)] = Say("Error: The encrypted message format is incorrect.")
        /\ NoToolCall
        /\ NoFileOperation

C1_Witness ==
    /\ DecryptInputRead
    /\ contains(message, BEGIN_MARKER)
    /\ ~ contains(message, END_MARKER)
    /\ pc = "done"

(***************************************************************************)
(* C2                                                                      *)
(***************************************************************************)
\* C2: a pass phrase written by ensure_user_pass_phrase is what
\* get_user_pass_phrase returns from the file afterwards, unchanged.
C2_RoundTrip ==
    \A i \in 1..Len(log) :
        (log[i].ev = "write" /\ log[i].what = PASS_PHRASE_FILE) =>
            get_user_pass_phrase(passFile) = log[i].arg

(***************************************************************************)
(* C3                                                                      *)
(***************************************************************************)
JustListedPublic == HasCall /\ IsCall(LastCall, "list-keys")
WellFormedEmailLine(l) == HasUidMarker(l) /\ Has(l, "<") /\ Has(l, ">")
EmailsListed(text) ==
    {EmailOn(splitlines(text)[i]) :
        i \in {k \in 1..Len(splitlines(text)) : WellFormedEmailLine(splitlines(text)[k])}}

\* C3: after a public-key listing, recipients has no repeated element, is
\* in ascending order and holds exactly the emails of the listing's lines
\* with the uid marker, a "<" and a ">"; it is empty when the listing
\* exited non-zero.
C3_RecipientsSortedSet ==
    JustListedPublic =>
        IF result.returncode # 0
        THEN recipients = <<>>
        ELSE /\ \A i, j \in 1..Len(recipients) : i < j => StrLess(recipients[i], recipients[j])
             /\ set(recipients) = EmailsListed(result.stdout)

C3_Witness ==
    /\ JustListedPublic
    /\ result.returncode = 0
    /\ result.stdout = JoinLines(<<UidBob, UidAl>>)
    /\ recipients = << <<"a","@","x">>, <<"b","@","x">> >>

(***************************************************************************)
(* C4                                                                      *)
(***************************************************************************)
\* the state get_user_name_and_email leaves: the listing was the last
\* subprocess call and first_time_setup has not yet replaced the identity
JustListedSecret ==
    /\ HasCall
    /\ IsCall(LastCall, "list-secret-keys")
    /\ \A i \in 1..Len(log) : ~ (log[i].ev = "read" /\ log[i].what = "name")

LinesWhere(text, P(_)) == SelectSeq(splitlines(text), P)

\* C4 as stated: every line with the uid marker, a "<" and a ">" yields
\* an identity, whose email is the text between the first "<" and the
\* first ">"; a listing without such a line yields (None, None).
C4_AsStated ==
    (JustListedSecret /\ result.returncode = 0) =>
        LET wf == LinesWhere(result.stdout, WellFormedEmailLine)
        IN  IF wf = <<>>
            THEN name = None /\ email = None
            ELSE name # None /\ email = EmailOn(wf[1])

WellFormedIdentityLine(l) == WellFormedEmailLine(l) /\ Has(l, " ")

\* C4 (amended): the lines that yield an identity are those with the uid
\* marker, a space, a "<" and a ">"; the email is the text after the
\* first "<" up to the first ">", the name is the stripped text from the
\* first space up to the first "<"; the function returns the identity of
\* the first such line, and (None, None) when there is none or the
\* listing exited non-zero.
C4_IdentityOfFirstWellFormedLine ==
    JustListedSecret =>
        LET wf == LinesWhere(result.stdout, WellFormedIdentityLine)
        IN  IF result.returncode # 0 \/ wf = <<>>
            THEN name = None /\ email = None
            ELSE name = NameOn(wf[1]) /\ email = EmailOn(wf[1])

C4_Witness ==
    /\ JustListedSecret
    /\ result.returncode = 0
    /\ result.stdout = JoinLines(<<UidNoSpace, UidBob>>)
    /\ name = <<"B","o","b">>
    /\ email = <<"b","@","x">>

(***************************************************************************)
(* C5                                                                      *)
(***************************************************************************)
SetupMode == mode = <<"s">>
GenKeyIndices == {i \in 1..Len(log) : IsCall(log[i], "gen-key")}
ExportIndices == {i \in 1..Len(log) : IsCall(log[i], "export")}
\* what the user typed at the prompts of first_time_setup
Entered(what) == log[CHOOSE i \in 1..Len(log) : log[i].ev = "read" /\ log[i].what = what].arg
FirstTimeSetupDone ==
    /\ \E i \in 1..Len(log) : log[i].ev = "read" /\ log[i].what = "email"
    /\ pc \in {"print_pgp_public_keys", "done"}

\* C5 as stated: at the end of a setup run whose key generation exited 0,
\* the generation is followed by an export call for the entered email
\* whose output has been written to the public-key file.
C5_AsStated ==
    (SetupMode /\ pc = "done") =>
        \A i \in GenKeyIndices :
            log[i].rc = 0 =>
                /\ IsCall(log[i+2], "export")
                /\ log[i+2].arg = Entered("email")
                /\ log[i+4].ev = "write"
                /\ log[i+4].what = PUB_KEY_FILE

\* C5 (amended): in a setup run that found no identity and read name N
\* and email E, one key generation is issued with RSA, 4096, 2y, N and E,
\* and with the pass phrase exactly when ensure_user_pass_phrase returned
\* one; when it exited 0 the next subprocess call is an export for E;
\* and an export writes its output to the public-key file when, and only
\* when, it exited 0.
C5_GenerateThenExport ==
    SetupMode =>
        /\ FirstTimeSetupDone => Cardinality(GenKeyIndices) = 1
        /\ \A i \in GenKeyIndices :
              /\ log[i].arg.KeyType = "RSA"
              /\ log[i].arg.KeyLength = 4096
              /\ log[i].arg.SubkeyType = "RSA"
              /\ log[i].arg.SubkeyLength = 4096
              /\ log[i].arg.ExpireDate = "2y"
              /\ log[i].arg.NameReal = Entered("name")
              /\ log[i].arg.NameEmail = Entered("email")
              /\ log[i].arg.HasPassphrase = (pass_phrase \notin {None, <<>>})
              /\ log[i].arg.HasPassphrase => log[i].arg.Passphrase = pass_phrase
              /\ (log[i].rc = 0 /\ Len(log) >= i + 2) =>
                    IsCall(log[i+2], "export") /\ log[i+2].arg = Entered("email")
              /\ log[i].rc = 0 => pc \in {"print_pgp_public_keys", "done"}
        /\ \A j \in ExportIndices :
              IF log[j].rc = 0
              THEN /\ log[j+2].ev = "write"
                   /\ log[j+2].what = PUB_KEY_FILE
                   /\ (\A k \in ExportIndices : k <= j) =>
                         log[j+2].arg = result.stdout /\ pubFile = result.stdout
              ELSE Len(log) > j + 1 => log[j+2].ev # "write"

C5_Witness ==
    /\ SetupMode
    /\ pc = "done"
    /\ \E i \in GenKeyIndices :
          log[i].rc = 0 /\ log[i].arg.HasPassphrase /\ log[i+2].rc = 0
    /\ pubFile = <<"K","2">>

(***************************************************************************)
(* C6                                                                      *)
(***************************************************************************)
\* C6: after a key generation that exited non-zero, the run makes no
\* further subprocess call, writes no file and does not report a
\* successful registration.
C6_FailedGenerationAbandons ==
    \A i \in GenKeyIndices :
        log[i].rc # 0 =>
            \A j \in (i+1)..Len(log) :
                /\ log[j].ev \notin {"call", "write"}
                /\ log[j] # Say("Successfully registered")

(***************************************************************************)
(* C7                                                                      *)
(***************************************************************************)
ResetListed ==
    /\ mode = <<"r">>
    /\ pc \in {"delete_secret_key", "delete_key", "done"}
    /\ \E i \in CallIndices : IsCall(log[i], "list-secret-keys --with-colons") /\ log[i].rc = 0
DeleteCalls ==
    SelectSeq(log, LAMBDA e : e.ev = "call" /\ e.what \in {"delete-secret-key", "delete-key"})

\* the text between the ninth colon of l and the next colon (or the end)
Colons(l) == {i \in 1..Len(l) : l[i] = ":"}
NthColon(l, n) == CHOOSE i \in Colons(l) : Cardinality({j \in Colons(l) : j <= i}) = n
TenthField(l) ==
    LET from == NthColon(l, 9)
        to == IF Cardinality(Colons(l)) >= 10 THEN NthColon(l, 10) ELSE Len(l) + 1
    IN  [k \in 1..(to - from - 1) |-> l[from + k]]
IsFprLine(l) == Len(l) >= 3 /\ l[1] = "f" /\ l[2] = "p" /\ l[3] = "r"

\* C7: the list reset_pgp_keys loops over is the tenth colon-separated
\* field of each line starting with fpr; the deletion calls are, for each
\* element in order, a secret-key deletion and then a public-key
\* deletion, whatever the exit status of the earlier ones; each call is
\* followed by the report of its own outcome for its fingerprint; a
\* finished run has made both calls for every element.
C7_DeletesEachKeyTwice ==
    ResetListed =>
        /\ IsCall(LastCall, "list-secret-keys --with-colons") =>
              LET fl == LinesWhere(result.stdout, IsFprLine)
              IN  /\ Len(fingerprints) = Len(fl)
                  /\ \A k \in 1..Len(fl) : fingerprints[k] = TenthField(fl[k])
        /\ \A k \in 1..Len(DeleteCalls) :
              /\ DeleteCalls[k].what = (IF k % 2 = 1 THEN "delete-secret-key" ELSE "delete-key")
              /\ DeleteCalls[k].arg = fingerprints[(k + 1) \div 2]
        /\ Len(DeleteCalls) = CASE pc = "delete_secret_key" -> 2 * (idx - 1)
                                [] pc = "delete_key" -> 2 * idx - 1
                                [] pc = "done" -> 2 * Len(fingerprints)
        /\ \A i \in 1..Len(log) :
              /\ IsCall(log[i], "delete-secret-key") =>
                    log[i+1] = SayOf(IF log[i].rc = 0 THEN "Deleted secret key"
                                     ELSE "Error deleting secret key", log[i].arg)
              /\ IsCall(log[i], "delete-key") =>
                    log[i+1] = SayOf(IF log[i].rc = 0 THEN "Deleted public key"
                                     ELSE "Error deleting public key", log[i].arg)

C7_Witness ==
    /\ ResetListed
    /\ pc = "done"
    /\ fingerprints = << <<"A","A">>, <<"B","B">> >>
    /\ Len(DeleteCalls) = 4
    /\ DeleteCalls[1].rc = 1
    /\ DeleteCalls[2].rc = 0
    /\ DeleteCalls[3].rc = 1

(***************************************************************************)
(* C8                                                                      *)
(***************************************************************************)
EncryptMode == mode = <<"e">>
SelectionIndices == {i \in 1..Len(log) : log[i].ev = "read" /\ log[i].what = "selection"}
\* the selection as select_recipient compares it
Typed(i) == lower(strip(log[i].arg))
InRange(t) == IsInt(t) /\ 1 <= int(t) /\ int(t) <= Len(recipients)
NoMessageRead == \A i \in 1..Len(log) : ~ (log[i].ev = "read" /\ log[i].what = "message")
NoEncryptCall == \A i \in CallIndices : ~ IsCall(log[i], "encrypt")

\* C8: a selection other than r that is not a number, or is a number
\* outside 1..len(recipients), ends the run with an error printed,
\* recipient None, no message read and no encrypt call; a selection in
\* range makes recipient the element at that 1-based position of the
\* sorted list of the most recent listing, an email of that listing, and
\* an encrypt call is issued for that recipient only.
C8_SelectionChecked ==
    EncryptMode =>
        /\ \A i \in SelectionIndices :
              (Typed(i) # <<"r">> /\ ~ InRange(Typed(i))) =>
                  /\ Len(log) = i + 1
                  /\ log[i+1] = Say(IF IsInt(Typed(i)) THEN "Invalid selection."
                                    ELSE "Invalid input. Please enter a number.")
                  /\ pc = "done"
                  /\ recipient = None
                  /\ NoMessageRead
                  /\ NoEncryptCall
        /\ pc = "encrypt_message" =>
              LET i == CHOOSE k \in SelectionIndices : \A j \in SelectionIndices : j <= k
              IN  /\ InRange(Typed(i))
                  /\ recipient = recipients[int(Typed(i))]
                  /\ IsCall(LastCall, "list-keys")
                  /\ \A m, n \in 1..Len(recipients) :
                        m < n => StrLess(recipients[m], recipients[n])
                  /\ recipient \in EmailsListed(result.stdout)
                  /\ NoMessageRead
                  /\ NoEncryptCall
        /\ \A i \in CallIndices :
              IsCall(log[i], "encrypt") =>
                  /\ log[i].arg = recipient
                  /\ recipient # None
                  /\ i = Len(log) - 1
                  /\ log[i-1].ev = "read" /\ log[i-1].what = "message"

C8_Witness ==
    /\ EncryptMode
    /\ pc = "done"
    /\ Len(recipients) = 1
    /\ \E i \in SelectionIndices : log[i].arg = <<" ","2"," ">>
    /\ \E i \in SelectionIndices : Typed(i) = <<"r">>
    /\ recipient = None

(***************************************************************************)
(* C9                                                                      *)
(***************************************************************************)
\* C9: the encrypt action returns: a run in encrypt mode does not end in
\* an uncaught exception, whatever gpg answers and the user pastes.
C9_EncryptReturns == EncryptMode => pc # "crashed"

(***************************************************************************)
(* C10                                                                     *)
(***************************************************************************)
StoredNonEmpty ==
    /\ passFile # NoFile
    /\ \E i \in 1..Len(passFile) : passFile[i] \notin {" ", "\t", "\n", "\r"}

\* C10: the pass phrase file gets a new content only in the write of
\* ensure_user_pass_phrase, when no pass phrase that is non-empty after
\* stripping is stored, the save prompt was answered y and the entered
\* pass phrase is non-empty; a stored pass phrase that is non-empty after
\* stripping is changed by no step but reset's, which always removes the
\* file, also when its listing fails.
C10_PassPhraseFileDiscipline ==
    [][ /\ (passFile' # passFile /\ passFile' # NoFile) =>
              /\ pc = "enter_pass_phrase"
              /\ ~ StoredNonEmpty
              /\ log[Len(log)] = Say("Saving pass phrase")
              /\ log[Len(log) - 1].what = "save_pass"
              /\ log[Len(log) - 1].arg \in {<<"y">>, <<"Y">>}
              /\ log'[Len(log) + 1].what = "pass_phrase"
              /\ log'[Len(log) + 1].arg # <<>>
              /\ passFile' = log'[Len(log) + 1].arg \o <<"\n">>
        /\ (passFile' # passFile /\ passFile' = NoFile) => pc = "reset_pgp_keys"
        /\ (StoredNonEmpty /\ pc # "reset_pgp_keys") => passFile' = passFile
        /\ (pc = "reset_pgp_keys" /\ pc' # pc) => passFile' = NoFile
      ]_vars

C10_Witness ==
    /\ sessions = 2
    /\ SetupMode
    /\ pc = "done"
    /\ passFile = <<"p","w","\n">>
    /\ \A i \in 1..Len(log) : log[i].ev # "write" \/ log[i].what # PASS_PHRASE_FILE
    /\ \E i \in 1..Len(log) : log[i] = Say("Found existing user")

=============================================================================
